---- MODULE Spec2Model ----
(* Model of library/zipfile.py: the Ansible module run_module(), which      *)
(* archives a list of paths into a ZIP file.  Strings that the code takes   *)
(* apart (paths) are sequences of one-character strings; the filesystem is  *)
(* a tree of nodes, a node being the sequence of its component names.       *)
EXTENDS Integers, Sequences, FiniteSets, TLC

VARIABLES params, filename, chdir, result, cwd, env, zips, archive_paths,
          i, compresslevel, zipped_file, pc, fsops, runs, zips0

vars == <<params, filename, chdir, result, cwd, env, zips, archive_paths,
          i, compresslevel, zipped_file, pc, fsops, runs, zips0>>

(* ---------------------------------------------------------------- bounds *)
MaxPaths == 2
MaxRuns == 2

(* ------------------------------------------------------- string helpers *)
Sep == "/"
None == <<>>

Range(s) == {s[k] : k \in 1..Len(s)}

\* str.find(Sep, from): index of the first separator at or after `from`, 0 if none
RECURSIVE find(_, _)
find(path, from) ==
    IF from > Len(path) THEN 0
    ELSE IF path[from] = Sep THEN from ELSE find(path, from + 1)

\* str.rfind(Sep): index of the last separator, 0 if none
RECURSIVE rfind(_, _)
rfind(path, upto) ==
    IF upto = 0 THEN 0
    ELSE IF path[upto] = Sep THEN upto ELSE rfind(path, upto - 1)

\* str.lstrip('/') with a bug: keeps the string as it is
lstrip_keep(path) == path

\* str.lstrip('/')
RECURSIVE lstrip(_)
lstrip(path) ==
    IF path # <<>> /\ Head(path) = Sep THEN lstrip(Tail(path)) ELSE path

\* str.rstrip('/')
RECURSIVE rstrip(_)
rstrip(path) ==
    IF path # <<>> /\ path[Len(path)] = Sep
    THEN rstrip(SubSeq(path, 1, Len(path) - 1)) ELSE path

\* os.path.basename with a bug: strips only the leading separators
basename_lstrip(path) == lstrip(path)

\* os.path.basename: what follows the last separator
basename(path) == SubSeq(path, rfind(path, Len(path)) + 1, Len(path))

\* the invoking user's home directory and the password database
HOME == <<"/", "h">>
pw_dir == [name \in {<<"h">>} |-> HOME]

\* os.path.expanduser
expanduser(path) ==
    IF path = <<>> \/ Head(path) # "~" THEN path
    ELSE LET f == find(path, 2)
             k == IF f = 0 THEN Len(path) + 1 ELSE f
             name == SubSeq(path, 2, k - 1)
             rest == SubSeq(path, k, Len(path))
         IN  IF k = 2
             THEN IF rstrip(HOME) \o rest = <<>> THEN <<Sep>> ELSE rstrip(HOME) \o rest
             ELSE IF name \in DOMAIN pw_dir
                  THEN IF rstrip(pw_dir[name]) \o rest = <<>> THEN <<Sep>>
                       ELSE rstrip(pw_dir[name]) \o rest
                  ELSE path

(* ----------------------------------------------------------- filesystem *)
\* the component names of a path (empty components dropped)
RECURSIVE Components(_)
Components(path) ==
    IF path = <<>> THEN <<>>
    ELSE LET f == find(path, 1)
         IN  IF f = 0 THEN <<path>>
             ELSE IF f = 1 THEN Components(Tail(path))
             ELSE <<SubSeq(path, 1, f - 1)>> \o Components(SubSeq(path, f + 1, Len(path)))

\* the node a path names, seen from working directory wd
Resolve(wd, path) ==
    IF path # <<>> /\ Head(path) = Sep THEN Components(path) ELSE wd \o Components(path)

Nodes == { <<>>, <<<<"a">>>>, <<<<"d">>>>, <<<<"d">>, <<"a">>>>, <<<<"h">>>>,
           <<<<"h">>, <<"a">>>>, <<<<"~">>>>, <<<<"~">>, <<"a">>>>,
           <<<<"o">>>>, <<<<"h">>, <<"o">>>> }

\* an archive file: whether it is there, its entries in the order written, and
\* whether it was closed with its directory of entries
NoZip == [kind |-> "absent", entries |-> <<>>, complete |-> FALSE]
EmptyZip == [kind |-> "file", entries |-> <<>>, complete |-> FALSE]
OldZip == [kind |-> "file", entries |-> << <<"o", "l", "d">> >>, complete |-> TRUE]

\* the nodes the destination can name: only these hold archives
ZipNodes == { <<<<"o">>>>, <<<<"h">>, <<"o">>>> }

\* a tree is the pair of the part no run changes (what the home directory and a
\* directory literally named "~" hold) and the archives; the kind of a node in it
Kind(tree, n) ==
    IF n \notin Nodes THEN "absent"
    ELSE IF n \in {<<>>, <<<<"d">>>>, <<<<"h">>>>} THEN "dir"
    ELSE IF n \in {<<<<"a">>>>, <<<<"d">>, <<"a">>>>} THEN "file"
    ELSE IF n = <<<<"h">>, <<"a">>>> THEN (IF tree[1].homeA THEN "file" ELSE "absent")
    ELSE IF n = <<<<"~">>>> THEN (IF tree[1].tilde THEN "dir" ELSE "absent")
    ELSE IF n = <<<<"~">>, <<"a">>>> THEN (IF tree[1].tilde THEN "file" ELSE "absent")
    ELSE tree[2][n].kind

InitZips(destPre) == [n \in ZipNodes |-> IF destPre THEN OldZip ELSE NoZip]

\* the filesystem as it is, and as it was when the run started
fs == <<env, zips>>
fs0 == <<env, zips0>>

Parent(node) == SubSeq(node, 1, Len(node) - 1)

\* os.stat: the kind of the node a path names, "absent" when the call fails
stat(tree, wd, path) ==
    IF path = <<>> THEN "absent"
    ELSE IF path[Len(path)] = Sep /\ Kind(tree, Resolve(wd, path)) # "dir" THEN "absent"
    ELSE Kind(tree, Resolve(wd, path))

\* os.path.exists with a bug: reports every path as existing
exists_always(tree, wd, path) == TRUE

\* os.path.exists
exists(tree, wd, path) == stat(tree, wd, path) # "absent"

isdir(tree, wd, path) == stat(tree, wd, path) = "dir"

InitCwd == <<>>

(* ------------------------------------------------------------- requests *)
PathChoices == { <<"a">>, <<"/", "a">>, <<"~", "/", "a">>, <<"d">> }

PathLists == UNION { [1..n -> PathChoices] : n \in 0..MaxPaths }

FilenameChoices == { <<"o">>, <<"~", "/", "o">>, <<"/", "x", "/", "o">> }

ChdirChoices == { None, <<"~">>, <<"/", "x">> }

COMPRESS_MAPPING ==
    [t \in {"default", "none", "fast", "best"} |->
        CASE t = "default" -> -1 [] t = "none" -> 0 [] t = "fast" -> 1 [] t = "best" -> 9]

NumericStrings == {"-1", "0", "1", "2", "3", "4", "5", "6", "7", "8", "9"}

COMPRESS_CHOICES == {"default", "none", "fast", "best"} \cup NumericStrings

\* the settings a request is drawn from: every token, numeric strings at the ends
\* and inside the range, and a string that is no choice
CompressInputs == {"default", "none", "fast", "best", "-1", "0", "5", "9", "banana"}

\* int(s) on the strings that parse as integers
int ==
    [s \in NumericStrings |->
        CASE s = "-1" -> -1 [] s = "0" -> 0 [] s = "1" -> 1 [] s = "2" -> 2
          [] s = "3" -> 3 [] s = "4" -> 4 [] s = "5" -> 5 [] s = "6" -> 6
          [] s = "7" -> 7 [] s = "8" -> 8 [] s = "9" -> 9]

\* isinstance(compress_level, int): the parameter is declared type='str'
isinstance_int(value) == FALSE

NoMsg == [text |-> "", path |-> <<>>, value |-> ""]

Terminal == {"SkippedNoop", "Committed", "Failed"}

(* ------------------------------------------------------ result reporting *)
\* module.exit_json(**result)
exit_json(res) == res

\* module.fail_json(msg=..., **result)
fail_json(res, msg) == [res EXCEPT !.failed = TRUE, !.msg = msg]

\* an exception that leaves run_module uncaught: the module run is reported failed
uncaught(res, text, path) ==
    [res EXCEPT !.failed = TRUE, !.msg = [text |-> text, path |-> path, value |-> ""]]

\* result['changed'] = True, forgotten
set_changed_forgotten(res) == res

\* result['changed'] = True
set_changed(res) == [res EXCEPT !.changed = TRUE]

Op(op, path) == [op |-> op, path |-> path]

(* ------------------------------------------------------------ run_module *)
Init ==
    /\ \E ps \in PathLists, fn \in FilenameChoices, cd \in ChdirChoices,
          cl \in CompressInputs, fl \in BOOLEAN, fo \in BOOLEAN :
          /\ params = [paths |-> ps, filename |-> fn, chdir |-> cd,
                       compress_level |-> cl, flatten |-> fl, force |-> fo]
          /\ filename = expanduser(fn)
          /\ chdir = IF cd # None THEN expanduser(cd) ELSE cd
    /\ \E homeA \in BOOLEAN, tilde \in BOOLEAN, destPre \in BOOLEAN :
          /\ env = [homeA |-> homeA, tilde |-> tilde]
          /\ zips = InitZips(destPre)
    /\ zips0 = zips
    /\ result = [changed |-> FALSE, failed |-> FALSE, msg |-> NoMsg]
    /\ cwd = InitCwd
    /\ archive_paths = <<>>
    /\ i = 1
    /\ compresslevel = <<>>
    /\ zipped_file = "closed"
    /\ pc = "chdir"
    /\ fsops = <<>>
    /\ runs = 1

\* os.chdir with a bug: never raises
chdir_error_never(tree, wd, path) == ""

\* os.chdir: the text of the error it raises, "" when it succeeds
chdir_error(tree, wd, path) ==
    CASE stat(tree, wd, path) = "absent" /\ Kind(tree, Resolve(wd, path)) = "absent"
            -> "No such file or directory"
      [] stat(tree, wd, path) # "dir" -> "Not a directory"
      [] OTHER -> ""

\* lines 164-168
ChDir ==
    /\ pc = "chdir"
    /\ IF chdir = None
       THEN /\ pc' = "Idle"
            /\ UNCHANGED <<result, cwd, fsops>>
       ELSE /\ fsops' = Append(fsops, Op("chdir", chdir))
            /\ IF chdir_error(fs, cwd, chdir) = ""
               THEN /\ cwd' = Resolve(cwd, chdir)
                    /\ pc' = "Idle"
                    /\ UNCHANGED result
               ELSE /\ result' = fail_json(result, [text |-> chdir_error(fs, cwd, chdir),
                                                    path |-> chdir, value |-> ""])
                    /\ pc' = "Failed"
                    /\ UNCHANGED cwd
    /\ UNCHANGED <<params, filename, chdir, env, zips, archive_paths, i, compresslevel,
                   zipped_file, runs, zips0>>

\* the overwrite guard with a bug: never skips
skip_never(force, present) == FALSE

\* line 170: not force and os.path.exists(filename)
skip_noop(force, present) == ~force /\ present

\* lines 170-173
Guard ==
    /\ pc = "Idle"
    /\ fsops' = IF params.force THEN fsops ELSE Append(fsops, Op("exists", filename))
    /\ IF skip_noop(params.force, exists(fs, cwd, filename))
       THEN /\ result' = exit_json(result)
            /\ pc' = "SkippedNoop"
            /\ UNCHANGED <<archive_paths, i>>
       ELSE /\ archive_paths' = <<>>
            /\ i' = 1
            /\ pc' = IF Len(params.paths) = 0 THEN "Resolve" ELSE "Normalize"
            /\ UNCHANGED result
    /\ UNCHANGED <<params, filename, chdir, cwd, env, zips, compresslevel,
                   zipped_file, runs, zips0>>

\* archive_paths[key] = value on a dict that keeps insertion order
DictSet(d, key, value) ==
    IF \E k \in 1..Len(d) : d[k].path = key
    THEN [k \in 1..Len(d) |-> IF d[k].path = key THEN [path |-> key, name |-> value] ELSE d[k]]
    ELSE Append(d, [path |-> key, name |-> value])

\* lines 181-186: the archive name of an (expanded) path
archive_name(path, flatten) == IF flatten THEN basename(path) ELSE lstrip(path)

\* lines 175-186, one iteration of the loop
CheckPath ==
    /\ pc = "Normalize"
    /\ i <= Len(params.paths)
    /\ fsops' = Append(fsops, Op("exists", params.paths[i]))
    /\ IF ~exists(fs, cwd, params.paths[i])
       THEN /\ result' = fail_json(result, [text |-> "path does not exist",
                                            path |-> params.paths[i], value |-> ""])
            /\ pc' = "Failed"
            /\ UNCHANGED <<archive_paths, i>>
       ELSE /\ archive_paths' = DictSet(archive_paths, expanduser(params.paths[i]),
                                  archive_name(expanduser(params.paths[i]), params.flatten))
            /\ i' = i + 1
            /\ pc' = IF i = Len(params.paths) THEN "Resolve" ELSE "Normalize"
            /\ UNCHANGED result
    /\ UNCHANGED <<params, filename, chdir, cwd, env, zips, compresslevel,
                   zipped_file, runs, zips0>>

\* lines 190-195
ResolveCompress ==
    /\ pc = "Resolve"
    /\ IF params.compress_level \in DOMAIN COMPRESS_MAPPING
       THEN /\ compresslevel' = <<COMPRESS_MAPPING[params.compress_level]>>
            /\ pc' = "Writing"
            /\ UNCHANGED result
       ELSE IF ~isinstance_int(params.compress_level)
       THEN /\ result' = fail_json(result, [text |-> "incorrect value for 'compress_level' option",
                                            path |-> <<>>, value |-> params.compress_level])
            /\ pc' = "Failed"
            /\ UNCHANGED compresslevel
       ELSE /\ compresslevel' = <<int[params.compress_level]>>
            /\ pc' = "Writing"
            /\ UNCHANGED result
    /\ UNCHANGED <<params, filename, chdir, cwd, env, zips, archive_paths, i,
                   zipped_file, fsops, runs, zips0>>

\* "/".join(names)
RECURSIVE join(_)
join(names) ==
    IF names = <<>> THEN <<>>
    ELSE IF Len(names) = 1 THEN Head(names)
    ELSE Head(names) \o <<Sep>> \o join(Tail(names))

\* the name ZipFile.write gives the entry: the arcname normalised, without leading
\* separators, and with a trailing separator when the source is a directory
ZipArcname(arcname, dir) ==
    LET norm == IF Components(arcname) = <<>> THEN <<".">> ELSE join(Components(arcname))
    IN  IF dir THEN norm \o <<Sep>> ELSE norm

\* open(filename, 'w+b'): the text of the error it raises, "" when it succeeds
open_error(tree, wd, path) ==
    CASE path = <<>> -> "No such file or directory"
      [] Components(path) = <<>> -> "Is a directory"
      [] Kind(tree, Parent(Resolve(wd, path))) = "absent" -> "No such file or directory"
      [] Kind(tree, Parent(Resolve(wd, path))) = "file" -> "Not a directory"
      [] Kind(tree, Resolve(wd, path)) = "dir" -> "Is a directory"
      [] OTHER -> ""

\* line 197: zipfile.ZipFile(filename, mode='w', ...) creates or truncates the file
OpenArchive ==
    /\ pc = "Writing"
    /\ zipped_file = "closed"
    /\ fsops' = Append(fsops, Op("open", filename))
    /\ IF open_error(fs, cwd, filename) = ""
       THEN /\ zips' = [zips EXCEPT ![Resolve(cwd, filename)] = EmptyZip]
            /\ zipped_file' = "open"
            /\ i' = 1
            /\ UNCHANGED <<result, pc>>
       ELSE /\ result' = uncaught(result, open_error(fs, cwd, filename), filename)
            /\ pc' = "Failed"
            /\ UNCHANGED <<zips, zipped_file, i>>
    /\ UNCHANGED <<params, filename, chdir, cwd, env, archive_paths, compresslevel,
                   runs, zips0>>

\* lines 199-200, one iteration: zipped_file.write(path, arcname=archive_path) adds
\* one entry for the path; leaving the with block on an exception closes the archive
WriteEntry ==
    /\ pc = "Writing"
    /\ zipped_file = "open"
    /\ i <= Len(archive_paths)
    /\ fsops' = fsops \o <<Op("stat", archive_paths[i].path), Op("write", filename)>>
    /\ IF stat(fs, cwd, archive_paths[i].path) = "absent"
       THEN /\ zips' = [zips EXCEPT ![Resolve(cwd, filename)].complete = TRUE]
            /\ result' = uncaught(result, "No such file or directory", archive_paths[i].path)
            /\ zipped_file' = "closed"
            /\ pc' = "Failed"
            /\ UNCHANGED i
       ELSE \E ioerror \in BOOLEAN :
            IF ioerror
            THEN /\ result' = uncaught(result, "Input/output error", filename)
                 /\ zipped_file' = "closed"
                 /\ pc' = "Failed"
                 /\ UNCHANGED <<zips, i>>
            ELSE /\ zips' = [zips EXCEPT ![Resolve(cwd, filename)].entries =
                                Append(@, ZipArcname(archive_paths[i].name,
                                                     isdir(fs, cwd, archive_paths[i].path)))]
                 /\ i' = i + 1
                 /\ UNCHANGED <<result, zipped_file, pc>>
    /\ UNCHANGED <<params, filename, chdir, cwd, env, archive_paths, compresslevel,
                   runs, zips0>>

\* lines 197-204: the with block ends, the archive is closed, changed is reported
CloseArchive ==
    /\ pc = "Writing"
    /\ zipped_file = "open"
    /\ i > Len(archive_paths)
    /\ fsops' = Append(fsops, Op("close", filename))
    /\ zipped_file' = "closed"
    /\ zips' = [zips EXCEPT ![Resolve(cwd, filename)].complete = TRUE]
    /\ result' = exit_json(set_changed(result))
    /\ pc' = "Committed"
    /\ UNCHANGED <<params, filename, chdir, cwd, env, archive_paths, i, compresslevel,
                   runs, zips0>>

\* the module is invoked again with identical parameters on the filesystem as it is
Rerun ==
    /\ pc \in Terminal
    /\ runs < MaxRuns
    /\ runs' = runs + 1
    /\ zips0' = zips
    /\ result' = [changed |-> FALSE, failed |-> FALSE, msg |-> NoMsg]
    /\ cwd' = InitCwd
    /\ archive_paths' = <<>>
    /\ i' = 1
    /\ compresslevel' = <<>>
    /\ zipped_file' = "closed"
    /\ pc' = "chdir"
    /\ fsops' = <<>>
    /\ UNCHANGED <<params, filename, chdir, env, zips>>

Next ==
    \/ ChDir
    \/ Guard
    \/ CheckPath
    \/ ResolveCompress
    \/ OpenArchive
    \/ WriteEntry
    \/ CloseArchive
    \/ Rerun

Spec == Init /\ [][Next]_vars

(* ================================================================ claims *)
\* what the filesystem holds, read without the module's own existence test
Present(tree, wd, path) == stat(tree, wd, path) # "absent"

\* the working-directory override, when given, names a directory that can be entered
ChdirOk == chdir = None \/ stat(fs0, InitCwd, chdir) = "dir"

\* the working directory in effect for the run once the override has been applied
EffCwd == IF chdir # None /\ ChdirOk THEN Resolve(InitCwd, chdir) ELSE InitCwd

\* the destination was there when the run started
DestAtStart == Present(fs0, EffCwd, filename)

Untouched == fs = fs0 /\ zips = zips0

DestOps == {k \in 1..Len(fsops) : fsops[k].op \in {"open", "write", "close"}}

DestZip ==
    IF Resolve(EffCwd, filename) \in DOMAIN zips THEN zips[Resolve(EffCwd, filename)]
    ELSE NoZip

\* C1: with force=false a second run with the same parameters leaves the filesystem
\* (the destination's content with it) as the first run left it and reports
\* changed=false; and any run with force=false that finds the destination present
\* never opens, truncates or writes it.
C1_Idempotence ==
    /\ (runs >= 2 /\ ~params.force) => (Untouched /\ ~result.changed)
    /\ (~params.force /\ ChdirOk /\ DestAtStart) => (Untouched /\ DestOps = {})

\* a second run that skipped an archive the first run wrote
C1_Witness ==
    /\ runs = 2
    /\ pc = "SkippedNoop"
    /\ ~params.force
    /\ DestZip.complete
    /\ DestZip.entries \notin {<<>>, OldZip.entries}

SomePathMissing == \E k \in 1..Len(params.paths) : ~Present(fs0, EffCwd, params.paths[k])

ClaimedLevel(setting) ==
    CASE setting = "default" -> -1
      [] setting = "none" -> 0
      [] setting = "fast" -> 1
      [] setting = "best" -> 9
      [] OTHER -> int[setting]

ResolverRan ==
    \/ pc \in {"Writing", "Committed"}
    \/ compresslevel # <<>>
    \/ result.msg.text = "incorrect value for 'compress_level' option"

\* C3: the resolver maps default, none, fast, best to -1, 0, 1, 9, every numeric
\* string '-1'..'9' to its integer value, and fails, naming the value, on any other.
C3_CompressionMapping ==
    ResolverRan =>
        IF params.compress_level \in COMPRESS_CHOICES
        THEN compresslevel = <<ClaimedLevel(params.compress_level)>>
        ELSE /\ pc = "Failed"
             /\ result.msg.value = params.compress_level

AllSourcesExist ==
    \A k \in 1..Len(params.paths) :
        /\ Present(fs0, EffCwd, params.paths[k])
        /\ Present(fs0, EffCwd, expanduser(params.paths[k]))

ClaimedEntryNames ==
    { ZipArcname(archive_name(expanduser(params.paths[k]), params.flatten),
                 isdir(fs0, EffCwd, expanduser(params.paths[k]))) : k \in 1..Len(params.paths) }

\* C4: a run with force=true over an existing destination, all sources existing and
\* the compression setting an accepted one, reports changed=true and leaves an
\* archive whose entries are exactly the current request's entry names (the
\* run not being cut short by an input/output error of the device).
C4_Overwrite ==
    ( /\ pc \in Terminal
      /\ params.force
      /\ ChdirOk
      /\ DestAtStart
      /\ AllSourcesExist
      /\ params.compress_level \in COMPRESS_CHOICES
      /\ result.msg.text # "Input/output error" ) =>
        /\ result.changed
        /\ Range(DestZip.entries) = ClaimedEntryNames

\* the nodes strictly below a node
Below(tree, node) ==
    { n \in Nodes : /\ Len(n) > Len(node)
                    /\ SubSeq(n, 1, Len(node)) = node
                    /\ Kind(tree, n) # "absent" }

\* C5: a committed run holds, for every source directory, an entry for every file and
\* sub-directory below it, named by the directory's entry name followed by the
\* path relative to the directory.
C5_DirectoryRecursive ==
    pc = "Committed" =>
        \A k \in 1..Len(archive_paths) :
            isdir(fs, EffCwd, archive_paths[k].path) =>
                \A n \in Below(fs, Resolve(EffCwd, archive_paths[k].path)) :
                    \E e \in Range(DestZip.entries) :
                        rstrip(e) = join(Components(archive_paths[k].name)
                                         \o SubSeq(n, Len(Resolve(EffCwd, archive_paths[k].path)) + 1, Len(n)))

Stage(position) ==
    CASE position = "chdir" -> 0
      [] position = "Idle" -> 1
      [] position = "Normalize" -> 2
      [] position = "Resolve" -> 3
      [] position = "Writing" -> 4
      [] OTHER -> 5

\* what holds of every state of a run
RunStates ==
    /\ pc \in {"chdir", "Idle", "Normalize", "Resolve", "Writing"} \cup Terminal
    /\ pc \notin Terminal => ENABLED Next
    /\ (pc \notin {"chdir", "Idle"} /\ ChdirOk) =>
           (pc = "SkippedNoop" <=> (~params.force /\ DestAtStart))
    /\ pc = "Writing" =>
           /\ compresslevel # <<>>
           /\ \A k \in 1..Len(params.paths) : Present(fs0, EffCwd, params.paths[k])
    /\ result.changed <=> pc = "Committed"
    /\ result.failed <=> pc = "Failed"
    /\ pc = "Committed" =>
           /\ Len(DestZip.entries) = Len(archive_paths)
           /\ DestZip.complete
           /\ zipped_file = "closed"
    /\ pc = "SkippedNoop" => Untouched

\* what holds of every step of a run: it moves to a later stage, or one step on
\* inside a loop that has an end; only a new run leaves a terminal outcome
RunSteps ==
    \/ /\ pc \in Terminal
       /\ pc' = "chdir"
       /\ runs' = runs + 1
    \/ /\ pc \notin Terminal
       /\ Stage(pc') > Stage(pc)
    \/ /\ pc = "Normalize" /\ pc' = pc
       /\ i <= Len(params.paths) /\ i' = i + 1
    \/ /\ pc = "Writing" /\ pc' = pc
       /\ zipped_file = "closed" /\ zipped_file' = "open"
    \/ /\ pc = "Writing" /\ pc' = pc
       /\ zipped_file = "open" /\ zipped_file' = "open"
       /\ i <= Len(archive_paths) /\ i' = i + 1

\* C6: every run ends in one terminal outcome (no state before it is stuck, every
\* step advances, a terminal outcome is left only by a new run); past Idle the
\* run is in SkippedNoop exactly when force=false and the destination existed;
\* Writing is entered only with every path checked and the level resolved;
\* changed=true exactly in Committed, where every entry of the mapping was
\* written, and a failure is reported exactly in Failed.
C6_StateMachine == []RunStates /\ [][RunSteps]_vars

\* a run that committed an archive of two entries
C6_Witness ==
    /\ pc = "Committed"
    /\ result.changed
    /\ Len(archive_paths) = 2
    /\ Len(DestZip.entries) = 2

\* name is what follows the last separator of path, and holds no separator
IsFinalComponent(path, name) ==
    /\ Sep \notin Range(name)
    /\ \E j \in 0..Len(path) :
          /\ path = SubSeq(path, 1, j) \o name
          /\ (j = 0 \/ path[j] = Sep)

Accepted == IF pc = "Normalize" THEN 1..(i - 1)
            ELSE IF pc \in {"Resolve", "Writing", "Committed"} THEN 1..Len(params.paths)
            ELSE {}

EveryAcceptedPathMapped ==
    \A k \in Accepted : \E m \in 1..Len(archive_paths) :
        archive_paths[m].path = expanduser(params.paths[k])

\* C7: with flatten=true every source path has an entry name, and it is the final
\* component of the path only: no separator in it, hence none at its start.
C7_Flatten ==
    params.flatten =>
        /\ EveryAcceptedPathMapped
        /\ \A m \in 1..Len(archive_paths) :
              /\ IsFinalComponent(archive_paths[m].path, archive_paths[m].name)
              /\ (archive_paths[m].name = <<>> \/ Head(archive_paths[m].name) # Sep)

\* a flattened entry whose path had parent segments
C7_Witness ==
    /\ params.flatten
    /\ \E m \in 1..Len(archive_paths) :
          /\ Sep \in Range(archive_paths[m].path)
          /\ archive_paths[m].name # archive_paths[m].path
          /\ archive_paths[m].name # <<>>

\* name is path without its leading separators
IsStripped(path, name) ==
    /\ (name = <<>> \/ Head(name) # Sep)
    /\ \E j \in 0..Len(path) :
          /\ path = SubSeq(path, 1, j) \o name
          /\ \A m \in 1..j : path[m] = Sep

\* C8 (as stated): with flatten=false every entry name is the expanded path without
\* its leading separators, and two distinct keys never have the same entry name.
C8_HierarchyInjective ==
    ~params.flatten =>
        /\ EveryAcceptedPathMapped
        /\ \A m \in 1..Len(archive_paths) :
              IsStripped(archive_paths[m].path, archive_paths[m].name)
        /\ \A m, n \in 1..Len(archive_paths) :
              archive_paths[m].path # archive_paths[n].path =>
                  archive_paths[m].name # archive_paths[n].name

\* C8 (amended): with flatten=false every entry name is the expanded path without its
\* leading separators, and two distinct keys have the same entry name only when
\* one of them is the other with more leading separators.
C8_Hierarchy ==
    ~params.flatten =>
        /\ EveryAcceptedPathMapped
        /\ \A m \in 1..Len(archive_paths) :
              IsStripped(archive_paths[m].path, archive_paths[m].name)
        /\ \A m, n \in 1..Len(archive_paths) :
              ( /\ archive_paths[m].path # archive_paths[n].path
                /\ archive_paths[m].name = archive_paths[n].name
                /\ Len(archive_paths[m].path) > Len(archive_paths[n].path) ) =>
                  \E j \in 1..Len(archive_paths[m].path) :
                      /\ \A q \in 1..j : archive_paths[m].path[q] = Sep
                      /\ archive_paths[n].path =
                             SubSeq(archive_paths[m].path, j + 1, Len(archive_paths[m].path))

\* two distinct keys, an absolute and a relative one, given the same entry name
C8_Witness ==
    /\ ~params.flatten
    /\ \E m, n \in 1..Len(archive_paths) :
          /\ archive_paths[m].path # archive_paths[n].path
          /\ archive_paths[m].name = archive_paths[n].name
          /\ Head(archive_paths[m].path) = Sep

ChdirErrorText ==
    IF Kind(fs0, Resolve(InitCwd, chdir)) = "absent" THEN "No such file or directory"
    ELSE "Not a directory"

\* C9: with a chdir override the directory change is the run's first filesystem
\* action; when the directory cannot be entered the run ends failed with the
\* system's error text and changed=false, having done nothing else: no existence
\* check, and the filesystem as it was.
C9_ChdirFailure ==
    /\ (chdir # None /\ fsops # <<>>) => fsops[1] = Op("chdir", chdir)
    /\ (chdir # None /\ ~ChdirOk /\ pc # "chdir") =>
           /\ pc = "Failed"
           /\ result.failed
           /\ ~result.changed
           /\ result.msg.text = ChdirErrorText
           /\ result.msg.path = chdir
           /\ fsops = <<Op("chdir", chdir)>>
           /\ Untouched
           /\ cwd = InitCwd

\* a failed directory change in front of an existing destination
C9_Witness ==
    /\ pc = "Failed"
    /\ chdir # None
    /\ ~ChdirOk
    /\ result.msg.path = chdir
    /\ Present(fs0, InitCwd, filename)
    /\ ~params.force

====
